---- MODULE Spec2Model ----
(***************************************************************************)
(* ts_diagnostic.py: a linear driver (main) that runs eight checks over    *)
(* the working directory and prints a report.  The state of a run is the   *)
(* environment the checks read (two JSON files, four marker files, the     *)
(* behaviour of six child processes), the position of main, and what has   *)
(* been printed so far.                                                    *)
(*                                                                         *)
(* Text is a sequence of one-character strings, so that strip, split,      *)
(* join, count, lower and slicing are computed as Python computes them.    *)
(***************************************************************************)
EXTENDS Integers, Sequences, FiniteSets, TLC

VARIABLES pc, tsconfig, package, markers, child, out, events, cmdlog

vars == <<pc, tsconfig, package, markers, child, out, events, cmdlog>>

---------------------------------------------------------------------------
(* Program constants.                                                      *)

\* result.split('\n')[:20]
HeadLines == 20
\* result[:500]
SampleChars == 500
\* lines[:5]
SampleLines == 5
\* "-" * 40
RuleWidth == 40
\* "=" * 50
BannerWidth == 50

---------------------------------------------------------------------------
(* Bounds of the model.                                                    *)

\* at most this many entries in each of dependencies / devDependencies
MaxDeps == 2
\* the type checker prints at most this many lines
MaxOutLines == 25
\* the text search prints at most this many lines
MaxScanLines == 7

---------------------------------------------------------------------------
(* Python str operations on text.                                          *)

Min(a, b) == IF a <= b THEN a ELSE b

MinOf(S) == CHOOSE x \in S : \A y \in S : x <= y

MaxOf(S) == CHOOSE x \in S : \A y \in S : y <= x

NL == <<"\n">>

\* the characters str.strip() removes (those of the model's alphabet)
Whitespace == {" ", "\n", "\t", "\r"}

\* s[:n]
Take(s, n) == SubSeq(s, 1, Min(n, Len(s)))

\* s.strip()
Strip(s) ==
  LET keep == {i \in 1..Len(s) : s[i] \notin Whitespace}
  IN  IF keep = {} THEN <<>> ELSE SubSeq(s, MinOf(keep), MaxOf(keep))

CharPos(s, c) == {i \in 1..Len(s) : s[i] = c}

NthPos(P, k) == CHOOSE i \in P : Cardinality({j \in P : j < i}) = k - 1

\* s.split(c) for a one-character separator: always at least one piece
Split(s, c) ==
  LET P == CharPos(s, c)
      n == Cardinality(P)
  IN  [k \in 1..(n + 1) |->
         SubSeq(s, IF k = 1 THEN 1 ELSE NthPos(P, k - 1) + 1,
                   IF k = n + 1 THEN Len(s) ELSE NthPos(P, k) - 1)]

\* sep.join(pieces)
RECURSIVE Join(_, _)
Join(pieces, sep) ==
  IF Len(pieces) = 0 THEN <<>>
  ELSE IF Len(pieces) = 1 THEN pieces[1]
  ELSE Join(SubSeq(pieces, 1, Len(pieces) - 1), sep) \o sep \o pieces[Len(pieces)]

\* the start positions of needle in s
Occurs(s, needle) ==
  {i \in 1..(Len(s) - Len(needle) + 1) : SubSeq(s, i, i + Len(needle) - 1) = needle}

\* needle in s
Contains(s, needle) == Occurs(s, needle) # {}

RECURSIVE CountFrom(_, _, _)
CountFrom(O, from, step) ==
  LET rest == {o \in O : o >= from}
  IN  IF rest = {} THEN 0 ELSE 1 + CountFrom(O, MinOf(rest) + step, step)

\* s.count(needle): non-overlapping occurrences, scanning from the left
Count(s, needle) == CountFrom(Occurs(s, needle), 1, Len(needle))

UpperChars ==
  <<"A","B","C","D","E","F","G","H","I","J","K","L","M",
    "N","O","P","Q","R","S","T","U","V","W","X","Y","Z">>

LowerChars ==
  <<"a","b","c","d","e","f","g","h","i","j","k","l","m",
    "n","o","p","q","r","s","t","u","v","w","x","y","z">>

LowerChar(c) ==
  IF \E i \in 1..26 : UpperChars[i] = c
  THEN LowerChars[CHOOSE i \in 1..26 : UpperChars[i] = c]
  ELSE c

\* s.lower()
Lower(s) == [i \in 1..Len(s) |-> LowerChar(s[i])]

\* [l for l in lines if l]
NonEmpty(lines) == SelectSeq(lines, LAMBDA l : Len(l) > 0)

Digits == <<"0","1","2","3","4","5","6","7","8","9">>

---------------------------------------------------------------------------
(* Texts of the model.                                                     *)

\* ValueErrorMsg: 'stdout and stderr arguments may not be used with capture_output.' -- str(e) of the ValueError subprocess.run raises
ValueErrorMsg ==
  <<"s","t","d","o","u","t"," ","a","n","d"," ","s","t","d","e","r","r"," ","a","r","g","u","m",
    "e","n","t","s"," ","m","a","y"," ","n","o","t"," ","b","e"," ","u","s","e","d"," ","w","i",
    "t","h"," ","c","a","p","t","u","r","e","_","o","u","t","p","u","t",".">>
\* ENOENTMsg: "[Errno 2] No such file or directory: 'npx'" -- str(e) of FileNotFoundError
ENOENTMsg ==
  <<"[","E","r","r","n","o"," ","2","]"," ","N","o"," ","s","u","c","h"," ","f","i","l","e"," ",
    "o","r"," ","d","i","r","e","c","t","o","r","y",":"," ","'","n","p","x","'">>
\* EACCESMsg: "[Errno 13] Permission denied: 'npx'" -- str(e) of PermissionError
EACCESMsg ==
  <<"[","E","r","r","n","o"," ","1","3","]"," ","P","e","r","m","i","s","s","i","o","n"," ","d",
    "e","n","i","e","d",":"," ","'","n","p","x","'">>
\* DecodeMsg: "'utf-8' codec can't decode byte 0xff in position 0: invalid start byte" -- str(e) of UnicodeDecodeError
DecodeMsg ==
  <<"'","u","t","f","-","8","'"," ","c","o","d","e","c"," ","c","a","n","'","t"," ","d","e","c",
    "o","d","e"," ","b","y","t","e"," ","0","x","f","f"," ","i","n"," ","p","o","s","i","t","i",
    "o","n"," ","0",":"," ","i","n","v","a","l","i","d"," ","s","t","a","r","t"," ","b","y","t",
    "e">>
\* ErrorTS: 'error TS' -- the literal searched by check_type_errors
ErrorTS ==
  <<"e","r","r","o","r"," ","T","S">>
\* ImportWord: 'import' -- the literal filtered by check_type_assertions
ImportWord ==
  <<"i","m","p","o","r","t">>
\* NotSetText: 'not set'
NotSetText ==
  <<"n","o","t"," ","s","e","t">>
\* NotFoundText: 'Not found'
NotFoundText ==
  <<"N","o","t"," ","f","o","u","n","d">>
\* PyTrue: 'True'
PyTrue ==
  <<"T","r","u","e">>
\* PyFalse: 'False'
PyFalse ==
  <<"F","a","l","s","e">>
\* PyNone: 'None'
PyNone ==
  <<"N","o","n","e">>
\* PyEmptyList: '[]'
PyEmptyList ==
  <<"[","]">>
\* PyEmptyDict: '{}'
PyEmptyDict ==
  <<"{","}">>
\* YesText: 'yes'
YesText ==
  <<"y","e","s">>
\* ESNextText: 'ESNext'
ESNextText ==
  <<"E","S","N","e","x","t">>
\* BundlerText: 'bundler'
BundlerText ==
  <<"b","u","n","d","l","e","r">>
\* FragBiome: 'biome'
FragBiome ==
  <<"b","i","o","m","e">>
\* FragEslint: 'eslint'
FragEslint ==
  <<"e","s","l","i","n","t">>
\* FragPrettier: 'prettier'
FragPrettier ==
  <<"p","r","e","t","t","i","e","r">>
\* FragVitest: 'vitest'
FragVitest ==
  <<"v","i","t","e","s","t">>
\* FragJest: 'jest'
FragJest ==
  <<"j","e","s","t">>
\* FragTurborepo: 'turborepo'
FragTurborepo ==
  <<"t","u","r","b","o","r","e","p","o">>
\* FragTurbo: 'turbo'
FragTurbo ==
  <<"t","u","r","b","o">>
\* FragNx: 'nx'
FragNx ==
  <<"n","x">>
\* FragLerna: 'lerna'
FragLerna ==
  <<"l","e","r","n","a">>
\* DepEslint: 'eslint'
DepEslint ==
  <<"e","s","l","i","n","t">>
\* DepEslintConfig: 'ESLint-config-x'
DepEslintConfig ==
  <<"E","S","L","i","n","t","-","c","o","n","f","i","g","-","x">>
\* DepTurborepo: 'turborepo'
DepTurborepo ==
  <<"t","u","r","b","o","r","e","p","o">>
\* DepNxJs: '@nx/js'
DepNxJs ==
  <<"@","n","x","/","j","s">>
\* DepTypescript: 'typescript'
DepTypescript ==
  <<"t","y","p","e","s","c","r","i","p","t">>
\* DepTsJest: 'ts-jest'
DepTsJest ==
  <<"t","s","-","j","e","s","t">>
\* VerCaret: '^1.0.0'
VerCaret ==
  <<"^","1",".","0",".","0">>
\* VerTilde: '~2.0.0'
VerTilde ==
  <<"~","2",".","0",".","0">>
\* TscVersionOut: 'Version 5.4.5\n'
TscVersionOut ==
  <<"V","e","r","s","i","o","n"," ","5",".","4",".","5","\n">>
\* NodeVersionOut: 'v20.11.0\n'
NodeVersionOut ==
  <<"v","2","0",".","1","1",".","0","\n">>
\* BlankOut: ' \n'
BlankOut ==
  <<" ","\n">>
\* NpmWarn: 'npm warn exec\n'
NpmWarn ==
  <<"n","p","m"," ","w","a","r","n"," ","e","x","e","c","\n">>
\* TscOkLine: 'src/app/main.ts: checked ok.'
TscOkLine ==
  <<"s","r","c","/","a","p","p","/","m","a","i","n",".","t","s",":"," ","c","h","e","c","k","e",
    "d"," ","o","k",".">>
\* TscErrLine: 'src/a.ts(1,1): error TS2322: bad.'
TscErrLine ==
  <<"s","r","c","/","a",".","t","s","(","1",",","1",")",":"," ","e","r","r","o","r"," ","T","S",
    "2","3","2","2",":"," ","b","a","d",".">>
\* TscErrLine2: 'src/b.ts(2,2): error TS2345: see error TS2322.'
TscErrLine2 ==
  <<"s","r","c","/","b",".","t","s","(","2",",","2",")",":"," ","e","r","r","o","r"," ","T","S",
    "2","3","4","5",":"," ","s","e","e"," ","e","r","r","o","r"," ","T","S","2","3","2","2",".">>
\* PerfFiles: 'Files:              120'
PerfFiles ==
  <<"F","i","l","e","s",":"," "," "," "," "," "," "," "," "," "," "," "," "," "," ","1","2","0">>
\* PerfLines: 'Lines:            50000'
PerfLines ==
  <<"L","i","n","e","s",":"," "," "," "," "," "," "," "," "," "," "," "," ","5","0","0","0","0">>
\* PerfNodes: 'Nodes:           200000'
PerfNodes ==
  <<"N","o","d","e","s",":"," "," "," "," "," "," "," "," "," "," "," ","2","0","0","0","0","0">>
\* PerfCheck: 'Check time:        1.20s'
PerfCheck ==
  <<"C","h","e","c","k"," ","t","i","m","e",":"," "," "," "," "," "," "," "," ","1",".","2","0",
    "s">>
\* PerfMemory: 'Memory used:     100000K'
PerfMemory ==
  <<"M","e","m","o","r","y"," ","u","s","e","d",":"," "," "," "," "," ","1","0","0","0","0","0",
    "K">>
\* GrepAsLine: 'src/a.ts:  const y = x as Foo;'
GrepAsLine ==
  <<"s","r","c","/","a",".","t","s",":"," "," ","c","o","n","s","t"," ","y"," ","="," ","x"," ",
    "a","s"," ","F","o","o",";">>
\* GrepImportLine: "src/a.ts:import * as fs from 'fs';"
GrepImportLine ==
  <<"s","r","c","/","a",".","t","s",":","i","m","p","o","r","t"," ","*"," ","a","s"," ","f","s",
    " ","f","r","o","m"," ","'","f","s","'",";">>
\* ScanPrefix: 'src/f'
ScanPrefix ==
  <<"s","r","c","/","f">>
\* ScanSuffix: '.ts:v: any'
ScanSuffix ==
  <<".","t","s",":","v",":"," ","a","n","y">>

---------------------------------------------------------------------------
(* Python values as json.load produces them.                               *)

PyNoneV == [t |-> "None"]

PyBool(b) == [t |-> "bool", v |-> b]

PyInt(n) == [t |-> "int", v |-> n]

PyStr(s) == [t |-> "str", v |-> s]

PyList(l) == [t |-> "list", v |-> l]

PyDict(m) == [t |-> "dict", v |-> m]

EmptyDict == PyDict(<<>>)

\* a key that is not in a mapping (no Python value)
Absent == [t |-> "absent"]

\* bool(v)
Truthy(v) ==
  CASE v.t = "None" -> FALSE
    [] v.t = "bool" -> v.v
    [] v.t = "int"  -> v.v # 0
    [] v.t = "str"  -> Len(v.v) # 0
    [] v.t = "list" -> Len(v.v) # 0
    [] v.t = "dict" -> DOMAIN v.v # {}

\* str(v), as an f-string formats v (one-digit integers, empty containers)
Str(v) ==
  CASE v.t = "None" -> PyNone
    [] v.t = "bool" -> (IF v.v THEN PyTrue ELSE PyFalse)
    [] v.t = "int" /\ v.v \in 0..9 -> <<Digits[v.v + 1]>>
    [] v.t = "str"  -> v.v
    [] v.t = "list" /\ Len(v.v) = 0 -> PyEmptyList
    [] v.t = "dict" /\ DOMAIN v.v = {} -> PyEmptyDict

\* d.get(key, default) on a dict d
DictGet(d, key, default) == IF key \in DOMAIN d.v THEN d.v[key] ELSE default

\* {**a, **b} on dicts a and b
DictMerge(a, b) ==
  PyDict([k \in (DOMAIN a.v) \cup (DOMAIN b.v) |->
            IF k \in DOMAIN b.v THEN b.v[k] ELSE a.v[k]])

\* the dict holding the keys of the assignment a that are not Absent
MkDict(a) == PyDict([k \in {x \in DOMAIN a : a[x].t # "absent"} |-> a[k]])

---------------------------------------------------------------------------
(* A file of the working directory: absent; present and not JSON           *)
(* ("malformed"); present and not readable as text ("unreadable"); or      *)
(* present with the document json.load returns.                            *)

FileAbsent == [kind |-> "absent", doc |-> PyNoneV]

FileMalformed == [kind |-> "malformed", doc |-> PyNoneV]

FileUnreadable == [kind |-> "unreadable", doc |-> PyNoneV]

FileJson(doc) == [kind |-> "json", doc |-> doc]

\* a check that does not look whether the file is there
ExistsAlways(file) == TRUE

\* Path(p).exists()
Exists(file) == file.kind # "absent"

\* with open(p) as f: json.load(f)
JsonLoad(file) ==
  CASE file.kind = "json"       -> [exc |-> "none", value |-> file.doc]
    [] file.kind = "malformed"  -> [exc |-> "JSONDecodeError", value |-> PyNoneV]
    [] file.kind = "unreadable" -> [exc |-> "PermissionError", value |-> PyNoneV]
    [] file.kind = "absent"     -> [exc |-> "FileNotFoundError", value |-> PyNoneV]

---------------------------------------------------------------------------
(* Printed lines.  One record per print call: its kind, the name it is     *)
(* about, an indicator, a number and the text it interpolates.             *)

Ln(k, key, on, n, text) == [k |-> k, key |-> key, on |-> on, n |-> n, text |-> text]

Title(name) == Ln("title", name, FALSE, 0, <<>>)

Rule == Ln("rule", "-", FALSE, RuleWidth, <<>>)

Banner == Ln("rule", "=", FALSE, BannerWidth, <<>>)

Msg(k) == Ln(k, "", FALSE, 0, <<>>)

Done(lines) == [lines |-> lines, exc |-> "none", cmds |-> <<>>]

Raise(lines, exc) == [lines |-> lines, exc |-> exc, cmds |-> <<>>]

---------------------------------------------------------------------------
(* run_cmd                                                                 *)

\* what the operating system does with the child once it is spawned
ChildOk(stdout, stderr) ==
  [spawn |-> "ok", decodable |-> TRUE, msg |-> <<>>, stdout |-> stdout, stderr |-> stderr]

ChildBinary ==
  [spawn |-> "ok", decodable |-> FALSE, msg |-> DecodeMsg, stdout |-> <<>>, stderr |-> <<>>]

ChildNotFound ==
  [spawn |-> "FileNotFoundError", decodable |-> TRUE, msg |-> ENOENTMsg,
   stdout |-> <<>>, stderr |-> <<>>]

ChildDenied ==
  [spawn |-> "PermissionError", decodable |-> TRUE, msg |-> EACCESMsg,
   stdout |-> <<>>, stderr |-> <<>>]

\* the classes `except Exception` catches
ExceptionClasses ==
  {"ValueError", "FileNotFoundError", "PermissionError", "UnicodeDecodeError",
   "JSONDecodeError", "AttributeError", "TypeError"}

\* subprocess.run(cmd, shell=False, capture_output=True, text=True[, stderr=DEVNULL]):
\* capture_output together with stderr is refused before any child is spawned
SubprocessRun(stderr_given, outcome) ==
  IF stderr_given
  THEN [exc |-> "ValueError", msg |-> ValueErrorMsg, stdout |-> <<>>, stderr |-> <<>>]
  ELSE IF outcome.spawn # "ok"
  THEN [exc |-> outcome.spawn, msg |-> outcome.msg, stdout |-> <<>>, stderr |-> <<>>]
  ELSE IF ~outcome.decodable
  THEN [exc |-> "UnicodeDecodeError", msg |-> outcome.msg, stdout |-> <<>>, stderr |-> <<>>]
  ELSE [exc |-> "none", msg |-> <<>>, stdout |-> outcome.stdout, stderr |-> outcome.stderr]

\* a handler that catches operating-system errors only (`except OSError`)
CaughtOSErrorOnly(exc) == exc \in {"FileNotFoundError", "PermissionError"}

\* `except Exception as e`
Caught(exc) == exc \in ExceptionClasses

run_cmd(cmd, capture_stderr, outcome) ==
  LET r == SubprocessRun(~capture_stderr, outcome)
      value == IF r.exc = "none"
               THEN (IF capture_stderr THEN r.stdout \o r.stderr ELSE r.stdout)
               ELSE r.msg
  IN  [cmd |-> cmd, capture_stderr |-> capture_stderr,
       exc |-> IF r.exc # "none" /\ ~Caught(r.exc) THEN r.exc ELSE "none",
       value |-> IF r.exc # "none" /\ ~Caught(r.exc) THEN <<>> ELSE value]

---------------------------------------------------------------------------
(* The eight checks.  Each yields the lines it prints, the exception it    *)
(* lets escape ("none" when it returns) and its run_cmd calls.             *)

check_versions(ch) ==
  LET c1 == run_cmd("tsc_version", FALSE, ch["tsc_version"])
      c2 == run_cmd("node_version", FALSE, ch["node_version"])
      ts_version == Strip(c1.value)
      node_version == Strip(c2.value)
      head == <<Title("versions"), Rule>>
  IN  IF c1.exc # "none" THEN [lines |-> head, exc |-> c1.exc, cmds |-> <<c1>>]
      ELSE IF c2.exc # "none" THEN [lines |-> head, exc |-> c2.exc, cmds |-> <<c1, c2>>]
      ELSE [lines |-> head \o
              <<Ln("version", "TypeScript", FALSE, 0,
                   IF Len(ts_version) > 0 THEN ts_version ELSE NotFoundText),
                Ln("version", "Node.js", FALSE, 0,
                   IF Len(node_version) > 0 THEN node_version ELSE NotFoundText)>>,
            exc |-> "none", cmds |-> <<c1, c2>>]

\* the four flags of check_tsconfig, in the order of the dict
Flags ==
  <<[flag |-> "noUncheckedIndexedAccess", desc |-> "Unchecked index access protection"],
    [flag |-> "noImplicitOverride", desc |-> "Implicit override protection"],
    [flag |-> "skipLibCheck", desc |-> "Skip lib check (performance)"],
    [flag |-> "incremental", desc |-> "Incremental compilation"]>>

Settings ==
  <<[key |-> "module", desc |-> "Module"],
    [key |-> "moduleResolution", desc |-> "Module Resolution"],
    [key |-> "target", desc |-> "Target"]>>

\* the value shown taken from `compiler_opts.get(flag) or 'not set'`
FlagLineOr(compiler_opts, f) ==
  Ln("flag", f.flag, Truthy(DictGet(compiler_opts, f.flag, PyNoneV)), 0,
     IF Truthy(DictGet(compiler_opts, f.flag, PyNoneV))
     THEN Str(DictGet(compiler_opts, f.flag, PyNoneV)) ELSE NotSetText)

\* status = (check mark) if compiler_opts.get(flag) else (blank mark); the value shown is
\* compiler_opts.get(flag, 'not set')
FlagLine(compiler_opts, f) ==
  Ln("flag", f.flag, Truthy(DictGet(compiler_opts, f.flag, PyNoneV)), 0,
     Str(DictGet(compiler_opts, f.flag, PyStr(NotSetText))))

StrictLine(compiler_opts) ==
  Ln("strict", "strict", Truthy(DictGet(compiler_opts, "strict", PyNoneV)), 0, <<>>)

SettingLine(compiler_opts, s) ==
  Ln("setting", s.desc, FALSE, 0, Str(DictGet(compiler_opts, s.key, PyStr(NotSetText))))

\* the body of the try block of check_tsconfig
TsconfigTry(file) ==
  LET ld == JsonLoad(file)
      config == ld.value
      compiler_opts == DictGet(config, "compilerOptions", EmptyDict)
  IN  IF ld.exc # "none" THEN Raise(<<>>, ld.exc)
      ELSE IF config.t # "dict" THEN Raise(<<>>, "AttributeError")
      ELSE IF compiler_opts.t # "dict" THEN Raise(<<>>, "AttributeError")
      ELSE Done(<<StrictLine(compiler_opts)>>
                \o [i \in 1..Len(Flags) |-> FlagLine(compiler_opts, Flags[i])]
                \o [i \in 1..Len(Settings) |-> SettingLine(compiler_opts, Settings[i])])

\* a try block with no handler for json.JSONDecodeError
ExceptNothing(body, name) == body

\* try: ... except json.JSONDecodeError: print(error)
ExceptJson(body, name) ==
  IF body.exc = "JSONDecodeError"
  THEN Done(body.lines \o <<Ln("invalid_json", name, FALSE, 0, <<>>)>>)
  ELSE body

check_tsconfig(file) ==
  LET head == <<Title("tsconfig"), Rule>>
      body == ExceptJson(TsconfigTry(file), "tsconfig.json")
  IN  IF ~Exists(file) THEN Done(head \o <<Ln("not_found", "tsconfig.json", FALSE, 0, <<>>)>>)
      ELSE [lines |-> head \o body.lines, exc |-> body.exc, cmds |-> <<>>]

\* the tools of check_tooling, in the order of the dict
Tools ==
  <<[tool |-> FragBiome, desc |-> "Biome (linter/formatter)"],
    [tool |-> FragEslint, desc |-> "ESLint"],
    [tool |-> FragPrettier, desc |-> "Prettier"],
    [tool |-> FragVitest, desc |-> "Vitest (testing)"],
    [tool |-> FragJest, desc |-> "Jest (testing)"],
    [tool |-> FragTurborepo, desc |-> "Turborepo (monorepo)"],
    [tool |-> FragTurbo, desc |-> "Turbo (monorepo)"],
    [tool |-> FragNx, desc |-> "Nx (monorepo)"],
    [tool |-> FragLerna, desc |-> "Lerna (monorepo)"]>>

\* the match without dep.lower()
ToolMatchesCased(tool, all_deps) == \E dep \in DOMAIN all_deps.v : Contains(dep, tool)

\* for dep in all_deps: if tool in dep.lower(): print; break
ToolMatches(tool, all_deps) == \E dep \in DOMAIN all_deps.v : Contains(Lower(dep), tool)

ToolLines(all_deps) ==
  LET hit == SelectSeq(Tools, LAMBDA t : ToolMatches(t.tool, all_deps))
  IN  [i \in 1..Len(hit) |-> Ln("tool", hit[i].desc, TRUE, 0, <<>>)]

\* the body of the try block of check_tooling
ToolingTry(file) ==
  LET ld == JsonLoad(file)
      pkg == ld.value
      deps == DictGet(pkg, "dependencies", EmptyDict)
      dev == DictGet(pkg, "devDependencies", EmptyDict)
  IN  IF ld.exc # "none" THEN Raise(<<>>, ld.exc)
      ELSE IF pkg.t # "dict" THEN Raise(<<>>, "AttributeError")
      ELSE IF deps.t # "dict" \/ dev.t # "dict" THEN Raise(<<>>, "TypeError")
      ELSE Done(ToolLines(DictMerge(deps, dev)))

check_tooling(file) ==
  LET head == <<Title("tooling"), Rule>>
      body == ExceptJson(ToolingTry(file), "package.json")
  IN  IF ~Exists(file) THEN Done(head \o <<Ln("not_found", "package.json", FALSE, 0, <<>>)>>)
      ELSE [lines |-> head \o body.lines, exc |-> body.exc, cmds |-> <<>>]

\* the indicators of check_monorepo, in list order
Indicators ==
  <<[file |-> "pnpm-workspace.yaml", name |-> "PNPM Workspace"],
    [file |-> "lerna.json", name |-> "Lerna"],
    [file |-> "nx.json", name |-> "Nx"],
    [file |-> "turbo.json", name |-> "Turborepo"]>>

MarkerFiles == {Indicators[i].file : i \in 1..Len(Indicators)}

\* the loop without `found = True`
check_monorepo_unset(present) ==
  LET hit == SelectSeq(Indicators, LAMBDA ind : ind.file \in present)
      found == FALSE
  IN  Done(<<Title("monorepo"), Rule>>
           \o [i \in 1..Len(hit) |-> Ln("detected", hit[i].name, TRUE, 0, <<>>)]
           \o (IF ~found THEN <<Msg("no_monorepo")>> ELSE <<>>))

check_monorepo(present) ==
  LET hit == SelectSeq(Indicators, LAMBDA ind : ind.file \in present)
      found == Len(hit) > 0
  IN  Done(<<Title("monorepo"), Rule>>
           \o [i \in 1..Len(hit) |-> Ln("detected", hit[i].name, TRUE, 0, <<>>)]
           \o (IF ~found THEN <<Msg("no_monorepo")>> ELSE <<>>))

\* the report without the truncation to the first lines
type_errors_report_untruncated(text) ==
  LET result == text
  IN  IF Contains(result, ErrorTS)
      THEN <<Ln("type_errors", "", FALSE, Count(result, ErrorTS), <<>>),
             Ln("sample", "", FALSE, 0, Take(result, SampleChars))>>
      ELSE <<Msg("no_type_errors")>>

\* the report of check_type_errors on the text run_cmd returned
type_errors_report(text) ==
  LET lines == Take(Split(text, "\n"), HeadLines)
      result == Join(lines, NL)
  IN  IF Contains(result, ErrorTS)
      THEN <<Ln("type_errors", "", FALSE, Count(result, ErrorTS), <<>>),
             Ln("sample", "", FALSE, 0, Take(result, SampleChars))>>
      ELSE <<Msg("no_type_errors")>>

check_type_errors(ch) ==
  LET c == run_cmd("tsc_noemit", TRUE, ch["tsc_noemit"])
      head == <<Title("type_errors"), Rule>>
  IN  IF c.exc # "none" THEN [lines |-> head, exc |-> c.exc, cmds |-> <<c>>]
      ELSE [lines |-> head \o type_errors_report(c.value), exc |-> "none", cmds |-> <<c>>]

\* lines = result.strip().split('\n') if result.strip() else []
StripLines(result) == IF Len(Strip(result)) > 0 THEN Split(Strip(result), "\n") ELSE <<>>

\* the report of check_any_usage on the text run_cmd returned
any_usage_report(result) ==
  LET lines == StripLines(result)
      count == Len(NonEmpty(lines))
      sample == Join(Take(lines, SampleLines), NL)
  IN  IF count > 0
      THEN <<Ln("any_found", "", FALSE, count, <<>>)>>
           \o (IF Len(sample) > 0 THEN <<Ln("sample", "", FALSE, 0, sample)>> ELSE <<>>)
      ELSE <<Msg("no_any")>>

check_any_usage(ch) ==
  LET c == run_cmd("grep_any", FALSE, ch["grep_any"])
      head == <<Title("any_usage"), Rule>>
  IN  IF c.exc # "none" THEN [lines |-> head, exc |-> c.exc, cmds |-> <<c>>]
      ELSE [lines |-> head \o any_usage_report(c.value), exc |-> "none", cmds |-> <<c>>]

\* the report of check_type_assertions on the text run_cmd returned
type_assertions_report(result) ==
  LET lines == StripLines(result)
      filtered == SelectSeq(lines, LAMBDA l : Len(l) > 0 /\ ~Contains(l, ImportWord))
      count == Len(filtered)
  IN  IF count > 0
      THEN <<Ln("assertions_found", "", FALSE, count, <<>>)>>
      ELSE <<Msg("no_assertions")>>

check_type_assertions(ch) ==
  LET c == run_cmd("grep_as", FALSE, ch["grep_as"])
      head == <<Title("type_assertions"), Rule>>
  IN  IF c.exc # "none" THEN [lines |-> head, exc |-> c.exc, cmds |-> <<c>>]
      ELSE [lines |-> head \o type_assertions_report(c.value), exc |-> "none", cmds |-> <<c>>]

\* re.compile(r'Check time|Files:|Lines:|Nodes:')
PerfPatterns ==
  {<<"C","h","e","c","k"," ","t","i","m","e">>, <<"F","i","l","e","s",":">>,
   <<"L","i","n","e","s",":">>, <<"N","o","d","e","s",":">>}

\* pattern.search(line)
PerfSearch(line) == \E p \in PerfPatterns : Contains(line, p)

\* the report of check_performance on the text run_cmd returned
performance_report(result) ==
  LET matching_lines == SelectSeq(Split(result, "\n"), PerfSearch)
  IN  IF Len(matching_lines) > 0
      THEN [i \in 1..Len(matching_lines) |-> Ln("metric", "", FALSE, 0, matching_lines[i])]
      ELSE <<Msg("perf_unmeasured")>>

check_performance(ch) ==
  LET c == run_cmd("tsc_diag", TRUE, ch["tsc_diag"])
      head == <<Title("performance"), Rule>>
  IN  IF c.exc # "none" THEN [lines |-> head, exc |-> c.exc, cmds |-> <<c>>]
      ELSE [lines |-> head \o performance_report(c.value), exc |-> "none", cmds |-> <<c>>]

---------------------------------------------------------------------------
(* main: the banner, the eight checks in order, the footer.  An exception  *)
(* that escapes a check ends the process at that check.                    *)

\* the calls of main with the two scanners after the type check
ChecksReordered ==
  <<"check_versions", "check_tsconfig", "check_tooling", "check_monorepo",
    "check_type_errors", "check_any_usage", "check_type_assertions", "check_performance">>

\* the calls of main, in order
Checks ==
  <<"check_versions", "check_tsconfig", "check_tooling", "check_monorepo",
    "check_any_usage", "check_type_assertions", "check_type_errors", "check_performance">>

CheckIndex(name) == CHOOSE i \in 1..Len(Checks) : Checks[i] = name

\* where main goes after the check `name` returns
After(name) ==
  IF CheckIndex(name) = Len(Checks) THEN "footer" ELSE Checks[CheckIndex(name) + 1]

Call(name) == [ev |-> "call", fn |-> name]

Return(name) == [ev |-> "return", fn |-> name]

Raised(name) == [ev |-> "raise", fn |-> name]

Env == <<tsconfig, package, markers, child>>

\* one call of main: the check runs to its return or to the exception it lets escape
Step(name, r) ==
  /\ pc = name
  /\ out' = Append(out, [sec |-> name, lines |-> r.lines])
  /\ cmdlog' = cmdlog \o r.cmds
  /\ events' = events \o <<Call(name), IF r.exc = "none" THEN Return(name) ELSE Raised(name)>>
  /\ pc' = IF r.exc = "none" THEN After(name) ELSE "aborted"
  /\ UNCHANGED Env

MainBanner ==
  /\ pc = "main"
  /\ out' = Append(out, [sec |-> "banner", lines |-> <<Banner, Title("report"), Banner>>])
  /\ pc' = Checks[1]
  /\ UNCHANGED <<events, cmdlog>>
  /\ UNCHANGED Env

CheckVersions == Step("check_versions", check_versions(child))

CheckTsconfig == Step("check_tsconfig", check_tsconfig(tsconfig))

CheckTooling == Step("check_tooling", check_tooling(package))

CheckMonorepo == Step("check_monorepo", check_monorepo(markers))

CheckAnyUsage == Step("check_any_usage", check_any_usage(child))

CheckTypeAssertions == Step("check_type_assertions", check_type_assertions(child))

CheckTypeErrors == Step("check_type_errors", check_type_errors(child))

CheckPerformance == Step("check_performance", check_performance(child))

MainFooter ==
  /\ pc = "footer"
  /\ out' = Append(out, [sec |-> "footer", lines |-> <<Banner, Msg("complete"), Banner>>])
  /\ pc' = "done"
  /\ UNCHANGED <<events, cmdlog>>
  /\ UNCHANGED Env

---------------------------------------------------------------------------
(* The environments a run starts in.  Each family varies one part of the   *)
(* working directory over a bounded set and leaves the rest at a default.  *)

TrackedOpts == {"strict"} \cup {Flags[i].flag : i \in 1..Len(Flags)}

SettingKeys == {Settings[i].key : i \in 1..Len(Settings)}

BoolVals == {Absent, PyBool(TRUE), PyBool(FALSE)}

OddVals ==
  {PyNoneV, PyInt(0), PyInt(1), PyStr(<<>>), PyStr(YesText), PyStr(NotSetText),
   PyList(<<>>), EmptyDict}

AllAbsent == [k \in TrackedOpts \cup SettingKeys |-> Absent]

TsconfigOf(opts) == FileJson(PyDict([compilerOptions |-> MkDict(opts)]))

\* every option absent, true or false
TsBoolFiles ==
  {TsconfigOf([k \in DOMAIN AllAbsent |-> IF k \in TrackedOpts THEN a[k] ELSE Absent]) :
     a \in [TrackedOpts -> BoolVals]}

\* one option with a value that is no boolean, the others absent or true
TsOddFiles ==
  {TsconfigOf([k \in DOMAIN AllAbsent |->
                 IF k = o THEN v ELSE IF k \in TrackedOpts THEN base ELSE Absent]) :
     o \in TrackedOpts, v \in OddVals, base \in {Absent, PyBool(TRUE)}}

TsSettingFiles ==
  {TsconfigOf([k \in DOMAIN AllAbsent |-> IF k \in SettingKeys THEN a[k] ELSE Absent]) :
     a \in [SettingKeys -> {Absent, PyStr(ESNextText), PyStr(BundlerText)}]}

\* the shapes a file takes besides a well-formed document
FileShapes ==
  {FileAbsent, FileMalformed, FileUnreadable,
   FileJson(PyNoneV), FileJson(PyList(<<>>)), FileJson(PyStr(YesText)), FileJson(EmptyDict)}

TsShapes ==
  FileShapes \cup {FileJson(PyDict([compilerOptions |-> PyNoneV])),
                   FileJson(PyDict([compilerOptions |-> PyList(<<>>)])),
                   TsconfigOf([AllAbsent EXCEPT !["strict"] = PyBool(TRUE)])}

TsDefault == TsconfigOf([AllAbsent EXCEPT !["strict"] = PyBool(TRUE)])

DepNames ==
  {DepEslint, DepEslintConfig, DepTurborepo, DepNxJs, DepTypescript, DepTsJest}

\* the dependency groups of at most MaxDeps entries, all of one version
DepGroups(version) ==
  {PyDict([k \in names |-> PyStr(version)]) :
     names \in {s \in SUBSET DepNames : Cardinality(s) <= MaxDeps}}

PackageOf(deps, dev) ==
  FileJson(MkDict([dependencies |-> deps, devDependencies |-> dev]))

PkgDepFiles ==
  {PackageOf(deps, dev) : deps \in DepGroups(VerCaret), dev \in DepGroups(VerTilde)}

PkgShapes ==
  FileShapes \cup {PackageOf(PyNoneV, Absent), PackageOf(Absent, PyList(<<>>)),
                   PackageOf(Absent, Absent),
                   PackageOf(PyDict([k \in {DepEslint} |-> PyStr(VerCaret)]), Absent)}

PkgDefault == PackageOf(PyDict([k \in {DepTypescript} |-> PyStr(VerCaret)]), Absent)

Cmds == {"tsc_version", "node_version", "grep_any", "grep_as", "tsc_noemit", "tsc_diag"}

\* what the type checker prints: n lines, those of errAt holding 'error TS'
TscText(n, errAt, twice, nl) ==
  Join([i \in 1..n |-> IF i \in errAt
                       THEN (IF twice THEN TscErrLine2 ELSE TscErrLine)
                       ELSE TscOkLine], NL)
  \o (IF nl /\ n > 0 THEN NL ELSE <<>>)

\* the first line, the last line read, the first line dropped, the last line printed
ErrSlots == {1, HeadLines, HeadLines + 1, MaxOutLines}

TscTexts ==
  {TscText(n, errAt, twice, nl) :
     n \in 0..MaxOutLines, errAt \in SUBSET ErrSlots, twice \in BOOLEAN, nl \in BOOLEAN}

\* the i-th line the search for ': any' prints
ScanLine(i) == ScanPrefix \o <<Digits[i + 1]>> \o ScanSuffix

\* what the search for ': any' prints: n matching lines of n files
ScanText(n) == Join([i \in 1..n |-> ScanLine(i)], NL) \o (IF n > 0 THEN NL ELSE <<>>)

\* what the text search prints: n matching lines
GrepText(line, n) == Join([i \in 1..n |-> line], NL) \o (IF n > 0 THEN NL ELSE <<>>)

PerfText ==
  Join(<<PerfFiles, PerfLines, PerfNodes, PerfMemory, PerfCheck>>, NL) \o NL

\* outcomes any child can have
CommonOutcomes ==
  {ChildNotFound, ChildDenied, ChildBinary, ChildOk(<<>>, <<>>), ChildOk(BlankOut, NpmWarn)}

Outcomes(cmd) ==
  CommonOutcomes \cup
  CASE cmd = "tsc_version"  -> {ChildOk(TscVersionOut, <<>>), ChildOk(TscVersionOut, NpmWarn)}
    [] cmd = "node_version" -> {ChildOk(NodeVersionOut, <<>>)}
    [] cmd = "grep_any"     -> {ChildOk(ScanText(n), <<>>) : n \in 0..MaxScanLines}
    [] cmd = "grep_as"      -> {ChildOk(GrepText(GrepAsLine, 2), <<>>),
                                ChildOk(GrepText(GrepImportLine, 2), <<>>),
                                ChildOk(GrepText(GrepAsLine, 1) \o GrepText(GrepImportLine, 1), <<>>)}
    [] cmd = "tsc_noemit"   -> {ChildOk(TscErrLine \o NL, NpmWarn),
                                ChildOk(NpmWarn, TscErrLine \o NL)}
    [] cmd = "tsc_diag"     -> {ChildOk(PerfText, <<>>), ChildOk(PerfText, NpmWarn),
                                ChildOk(PerfMemory \o NL, <<>>)}

ChildDefault ==
  [c \in Cmds |->
     CASE c = "tsc_version"  -> ChildOk(TscVersionOut, <<>>)
       [] c = "node_version" -> ChildOk(NodeVersionOut, <<>>)
       [] c = "grep_any"     -> ChildOk(ScanText(1), <<>>)
       [] c = "grep_as"      -> ChildOk(<<>>, <<>>)
       [] c = "tsc_noemit"   -> ChildOk(<<>>, <<>>)
       [] c = "tsc_diag"     -> ChildOk(PerfCheck \o NL, <<>>)]

\* one child varied, the others at their default
ChildFamilies ==
  UNION {{[ChildDefault EXCEPT ![c] = o] : o \in Outcomes(c)} : c \in Cmds}
  \cup {[ChildDefault EXCEPT !["tsc_noemit"] = ChildOk(t, <<>>)] : t \in TscTexts}

Init ==
  /\ pc = "main"
  /\ out = <<>>
  /\ events = <<>>
  /\ cmdlog = <<>>
  /\ \/ /\ tsconfig \in TsBoolFiles \cup TsOddFiles \cup TsSettingFiles
        /\ package = PkgDefault /\ markers = {} /\ child = ChildDefault
     \/ /\ tsconfig \in TsShapes /\ package \in PkgShapes
        /\ markers = {} /\ child = ChildDefault
     \/ /\ tsconfig = TsDefault /\ package \in PkgDepFiles
        /\ markers = {} /\ child = ChildDefault
     \/ /\ tsconfig = TsDefault /\ package = PkgDefault
        /\ markers \in SUBSET MarkerFiles /\ child = ChildDefault
     \/ /\ tsconfig = TsDefault /\ package = PkgDefault
        /\ markers = {} /\ child \in ChildFamilies

Next ==
  \/ MainBanner
  \/ CheckVersions
  \/ CheckTsconfig
  \/ CheckTooling
  \/ CheckMonorepo
  \/ CheckAnyUsage
  \/ CheckTypeAssertions
  \/ CheckTypeErrors
  \/ CheckPerformance
  \/ MainFooter

Spec == Init /\ [][Next]_vars


---------------------------------------------------------------------------
(* Reading the report.                                                     *)

HasSec(name) == \E i \in 1..Len(out) : out[i].sec = name

Sec(name) == out[CHOOSE i \in 1..Len(out) : out[i].sec = name].lines

\* the lines of a section after its title and rule
Body(name) == SubSeq(Sec(name), 3, Len(Sec(name)))

Kinds(lines) == {lines[i].k : i \in 1..Len(lines)}

\* the run_cmd call of the command cmd
HasCmd(cmd) == \E i \in 1..Len(cmdlog) : cmdlog[i].cmd = cmd

CmdOf(cmd) == cmdlog[CHOOSE i \in 1..Len(cmdlog) : cmdlog[i].cmd = cmd]

\* the order the specification fixes for the eight checks
FixedOrder ==
  <<"check_versions", "check_tsconfig", "check_tooling", "check_monorepo",
    "check_any_usage", "check_type_assertions", "check_type_errors", "check_performance">>

\* call and return of every check, in the fixed order
FullRun == [i \in 1..16 |-> [ev |-> IF i % 2 = 1 THEN "call" ELSE "return",
                             fn |-> FixedOrder[(i + 1) \div 2]]]

Terminated == pc \in {"done", "aborted"}

\* main is at a step it can take: the banner, a check or the footer
CanStep == pc \in {"main", "footer"} \cup {FixedOrder[i] : i \in 1..8}

---------------------------------------------------------------------------
(* C1: with standard error discarded, whenever the child can be spawned    *)
(* and exits, run_cmd returns exactly the child's standard output; with    *)
(* capture_stderr it returns standard output followed by standard error.   *)
(* Stated of every run_cmd call a run has made.                            *)
C1_ReturnsChildOutput ==
  \A i \in 1..Len(cmdlog) :
    LET c == cmdlog[i]
        o == child[c.cmd]
    IN  (o.spawn = "ok" /\ o.decodable) =>
          /\ c.exc = "none"
          /\ c.value = IF c.capture_stderr THEN o.stdout \o o.stderr ELSE o.stdout

---------------------------------------------------------------------------
(* C2: run_cmd always returns a text and lets no exception escape; when    *)
(* the invocation fails (refused arguments, spawn error, undecodable       *)
(* output) the text is the stringified error.                              *)
C2_NeverRaises ==
  \A i \in 1..Len(cmdlog) :
    LET c == cmdlog[i]
        o == child[c.cmd]
    IN  /\ c.exc = "none"
        /\ ~c.capture_stderr => c.value = ValueErrorMsg
        /\ (c.capture_stderr /\ o.spawn # "ok") => c.value = o.msg
        /\ (c.capture_stderr /\ o.spawn = "ok" /\ ~o.decodable) => c.value = o.msg

\* a call whose child could not be spawned came back with the error text,
\* after a call whose arguments were refused did the same
C2_Witness ==
  /\ HasCmd("tsc_version") /\ CmdOf("tsc_version").value = ValueErrorMsg
  /\ HasCmd("tsc_noemit")
  /\ child["tsc_noemit"].spawn = "FileNotFoundError"
  /\ CmdOf("tsc_noemit").exc = "none"
  /\ CmdOf("tsc_noemit").value = ENOENTMsg

---------------------------------------------------------------------------
(* C3 as claimed: every run of main invokes each of the eight checks       *)
(* exactly once, in the fixed order.  Stated of the runs that have ended.  *)
C3_EveryRunCallsAllEight == Terminated => events = FullRun

(* C3 as amended: the checks are invoked in the fixed order, each at most  *)
(* once and none before the previous one has returned; a run in which no   *)
(* check lets an exception escape invokes all eight and prints the footer  *)
(* after the performance check, last; a run in which a check lets an       *)
(* exception escape ends at that check, with no later check and no footer. *)
C3_FixedOrder ==
  /\ Len(events) <= 16
  /\ \A i \in 1..Len(events) :
       /\ events[i].fn = FixedOrder[(i + 1) \div 2]
       /\ (i % 2 = 1) => events[i].ev = "call"
       /\ (i % 2 = 0) => events[i].ev \in {"return", "raise"}
       /\ events[i].ev = "raise" => (i = Len(events) /\ pc = "aborted")
  /\ Len(events) % 2 = 0
  /\ pc = "aborted" => (Len(events) > 0 /\ events[Len(events)].ev = "raise")
  /\ pc = "aborted" => ~HasSec("footer")
  /\ pc = "done" => events = FullRun
  /\ HasSec("footer") =>
       /\ pc = "done"
       /\ out[Len(out)].sec = "footer"
       /\ out[Len(out) - 1].sec = "check_performance"
  /\ \A i \in 1..Len(out) :
       out[i].sec = (IF i = 1 THEN "banner" ELSE IF i = 10 THEN "footer" ELSE FixedOrder[i - 1])
  /\ ~Terminated => CanStep

\* a run that called all eight checks and printed the footer
C3_Witness == pc = "done" /\ events = FullRun /\ out[Len(out)].sec = "footer"

---------------------------------------------------------------------------
(* C4: when tsconfig.json and package.json are each absent or malformed,   *)
(* each of the two checks prints its warning (absent) or its error         *)
(* (malformed) and returns; no check raises, every later check runs, and   *)
(* the run goes on to the footer.                                          *)
C4_MissingOrMalformedRecovered ==
  (tsconfig.kind \in {"absent", "malformed"} /\ package.kind \in {"absent", "malformed"}) =>
    /\ pc # "aborted"
    /\ \A i \in 1..Len(events) : events[i].ev # "raise"
    /\ HasSec("check_tsconfig") =>
         Body("check_tsconfig") =
           <<Ln(IF tsconfig.kind = "absent" THEN "not_found" ELSE "invalid_json",
                "tsconfig.json", FALSE, 0, <<>>)>>
    /\ HasSec("check_tooling") =>
         Body("check_tooling") =
           <<Ln(IF package.kind = "absent" THEN "not_found" ELSE "invalid_json",
                "package.json", FALSE, 0, <<>>)>>
    /\ pc = "done" => (events = FullRun /\ HasSec("footer"))
    /\ pc # "done" => CanStep

\* a finished run over a malformed tsconfig.json and no package.json
C4_Witness ==
  /\ pc = "done"
  /\ tsconfig.kind = "malformed"
  /\ package.kind = "absent"
  /\ HasSec("footer")

---------------------------------------------------------------------------
(* C5: after its header the tsconfig section holds exactly the 'not found' *)
(* warning when tsconfig.json is absent, and exactly one error line when   *)
(* it is not valid JSON; strict, flag and setting lines are printed only   *)
(* when the file exists and parses.                                        *)
C5_NoFlagLinesWithoutConfig ==
  HasSec("check_tsconfig") =>
    LET body == Body("check_tsconfig")
    IN  /\ tsconfig.kind = "absent" =>
             (Len(body) = 1 /\ body[1].k = "not_found" /\ body[1].key = "tsconfig.json")
        /\ tsconfig.kind = "malformed" =>
             (Len(body) = 1 /\ body[1].k = "invalid_json" /\ body[1].key = "tsconfig.json")
        /\ (Kinds(body) \cap {"strict", "flag", "setting"} # {}) => tsconfig.kind = "json"
        /\ tsconfig.kind = "json" => Kinds(body) \cap {"not_found", "invalid_json"} = {}

\* the section of a tsconfig.json that is not valid JSON
C5_Witness ==
  /\ HasSec("check_tsconfig")
  /\ tsconfig.kind = "malformed"
  /\ Kinds(Body("check_tsconfig")) = {"invalid_json"}

---------------------------------------------------------------------------
(* C6: check_type_errors reports on the first 20 lines of the compiler     *)
(* output only: an error is reported iff 'error TS' occurs in them, the    *)
(* count is the number of its occurrences in them, the sample is the first *)
(* 500 characters of them, and whatever follows line 20 changes nothing.   *)

\* the text before the 20th line break (all of it when there are fewer)
Window(s) ==
  LET P == CharPos(s, "\n")
  IN  IF Cardinality(P) < 20 THEN s ELSE SubSeq(s, 1, NthPos(P, 20) - 1)

C6_ReportsOnFirstTwentyLines ==
  (HasSec("check_type_errors") /\ HasCmd("tsc_noemit")) =>
    LET w == Window(CmdOf("tsc_noemit").value)
        occ == Occurs(w, ErrorTS)
        body == Body("check_type_errors")
    IN  IF occ # {}
        THEN /\ Len(body) = 2
             /\ body[1].k = "type_errors" /\ body[1].n = Cardinality(occ)
             /\ body[2].k = "sample"
             /\ body[2].text = SubSeq(w, 1, IF Len(w) < 500 THEN Len(w) ELSE 500)
        ELSE Len(body) = 1 /\ body[1].k = "no_type_errors"

\* output whose only errors are past line 20 is reported as free of errors
C6_Witness ==
  /\ HasSec("check_type_errors")
  /\ Occurs(child["tsc_noemit"].stdout, ErrorTS) # {}
  /\ Occurs(Window(child["tsc_noemit"].stdout), ErrorTS) = {}
  /\ Kinds(Body("check_type_errors")) = {"no_type_errors"}

---------------------------------------------------------------------------
(* C7: when the search for ': any' runs and prints a text with n non-empty *)
(* lines, check_any_usage prints the count n and then exactly the first    *)
(* min(n, 5) of those lines, in order; for n = 0 it prints only the        *)
(* success line.  Stated of the search's standard output in every run that *)
(* has made the check.                                                     *)
C7_FirstFiveMatchingLines ==
  (HasSec("check_any_usage") /\ child["grep_any"].spawn = "ok"
   /\ child["grep_any"].decodable) =>
    LET matching == NonEmpty(Split(Strip(child["grep_any"].stdout), "\n"))
        n == Len(matching)
        lines == Body("check_any_usage")
    IN  IF n > 0
        THEN /\ Len(lines) = 2
             /\ lines[1].k = "any_found" /\ lines[1].n = n
             /\ lines[2].k = "sample"
             /\ Split(lines[2].text, "\n") = SubSeq(matching, 1, IF n < 5 THEN n ELSE 5)
        ELSE Len(lines) = 1 /\ lines[1].k = "no_any"

---------------------------------------------------------------------------
(* C8: for a valid manifest, a tool's label is printed iff some key of the *)
(* merged dependencies contains its fragment, compared without case; it is *)
(* printed once however many keys match; the labels come in table order.   *)

\* needle occurs in key when both are compared without case
FoldedIn(needle, key) ==
  \E at \in 0..(Len(key) - Len(needle)) :
    \A j \in 1..Len(needle) : LowerChar(key[at + j]) = LowerChar(needle[j])

\* the keys of a dependency group of the manifest (none when it is absent)
GroupKeys(group) ==
  IF group \in DOMAIN package.doc.v THEN DOMAIN package.doc.v[group].v ELSE {}

ValidManifest ==
  /\ package.kind = "json"
  /\ package.doc.t = "dict"
  /\ \A g \in {"dependencies", "devDependencies"} :
       g \in DOMAIN package.doc.v => package.doc.v[g].t = "dict"

C8_ToolListedOnceIffMatched ==
  (HasSec("check_tooling") /\ ValidManifest) =>
    LET body == Body("check_tooling")
        keys == GroupKeys("dependencies") \cup GroupKeys("devDependencies")
        at(t) == {i \in 1..Len(body) : body[i].key = Tools[t].desc}
    IN  /\ \A i \in 1..Len(body) : body[i].k = "tool"
        /\ \A t \in 1..Len(Tools) :
             Cardinality(at(t)) =
               IF \E key \in keys : FoldedIn(Tools[t].tool, key) THEN 1 ELSE 0
        /\ \A t, u \in 1..Len(Tools) :
             \A i \in at(t), j \in at(u) : t < u => i < j
        /\ Len(body) = Cardinality({t \in 1..Len(Tools) : at(t) # {}})

\* two keys match 'eslint', one of them only without case: one ESLint line
C8_Witness ==
  /\ HasSec("check_tooling") /\ ValidManifest
  /\ {DepEslint, DepEslintConfig} \subseteq
        GroupKeys("dependencies") \cup GroupKeys("devDependencies")
  /\ Cardinality({i \in 1..Len(Body("check_tooling")) :
                    Body("check_tooling")[i].key = "ESLint"}) = 1

---------------------------------------------------------------------------
(* C9: for every set of marker files present, the monorepo section holds   *)
(* one 'detected' line per present marker, in list order, and the single   *)
(* 'no monorepo' line iff no marker is present; never both.                *)

MarkerOrder ==
  <<[file |-> "pnpm-workspace.yaml", name |-> "PNPM Workspace"],
    [file |-> "lerna.json", name |-> "Lerna"],
    [file |-> "nx.json", name |-> "Nx"],
    [file |-> "turbo.json", name |-> "Turborepo"]>>

C9_OneLinePerMarker ==
  HasSec("check_monorepo") =>
    LET body == Body("check_monorepo")
        det == {i \in 1..Len(body) : body[i].k = "detected"}
        none == {i \in 1..Len(body) : body[i].k = "no_monorepo"}
    IN  /\ Cardinality(det) = Cardinality(markers)
        /\ Cardinality(none) = (IF markers = {} THEN 1 ELSE 0)
        /\ Len(body) = Cardinality(det) + Cardinality(none)
        /\ det = {} \/ none = {}
        /\ \A m \in 1..4 :
             (MarkerOrder[m].file \in markers) <=>
               (\E i \in det : body[i].key = MarkerOrder[m].name)
        /\ \A i, j \in det :
             i < j => \E m, k \in 1..4 :
                        m < k /\ body[i].key = MarkerOrder[m].name
                              /\ body[j].key = MarkerOrder[k].name

\* two of the four markers present: two 'detected' lines and nothing else
C9_Witness ==
  /\ HasSec("check_monorepo")
  /\ Cardinality(markers) = 2
  /\ Len(Body("check_monorepo")) = 2
  /\ Kinds(Body("check_monorepo")) = {"detected"}

---------------------------------------------------------------------------
(* C10: with a valid config the strict line shows 'enabled' iff            *)
(* compilerOptions.strict is truthy; each of the four flag lines shows the *)
(* enabled mark iff the configured value is truthy, and displays the       *)
(* configured value, or 'not set' when the flag is absent.                 *)

\* the values Python takes for false
Falsy(v) ==
  \/ v.t = "None"
  \/ v.t = "bool" /\ v.v = FALSE
  \/ v.t = "int" /\ v.v = 0
  \/ v.t \in {"str", "list"} /\ v.v = <<>>
  \/ v.t = "dict" /\ DOMAIN v.v = {}

ValidConfig ==
  /\ tsconfig.kind = "json"
  /\ tsconfig.doc.t = "dict"
  /\ "compilerOptions" \in DOMAIN tsconfig.doc.v => tsconfig.doc.v["compilerOptions"].t = "dict"

\* compilerOptions as configured (empty when the key is absent)
Configured ==
  IF "compilerOptions" \in DOMAIN tsconfig.doc.v
  THEN tsconfig.doc.v["compilerOptions"].v ELSE <<>>

FlagOrder == <<"noUncheckedIndexedAccess", "noImplicitOverride", "skipLibCheck", "incremental">>

C10_FlagLinesShowConfiguredValues ==
  (HasSec("check_tsconfig") /\ ValidConfig) =>
    LET body == Body("check_tsconfig")
        set(o) == o \in DOMAIN Configured
    IN  /\ Len(body) = 8
        /\ body[1].k = "strict"
        /\ body[1].on <=> (set("strict") /\ ~Falsy(Configured["strict"]))
        /\ \A i \in 1..4 :
             LET f == FlagOrder[i]
                 line == body[i + 1]
             IN  /\ line.k = "flag" /\ line.key = f
                 /\ line.on <=> (set(f) /\ ~Falsy(Configured[f]))
                 /\ line.text = IF set(f) THEN Str(Configured[f]) ELSE NotSetText

\* strict and all four flags true: every line shows the enabled mark and True
C10_Witness ==
  /\ HasSec("check_tsconfig") /\ ValidConfig
  /\ \A o \in TrackedOpts : o \in DOMAIN Configured /\ Configured[o].t = "bool" /\ Configured[o].v
  /\ \A i \in 1..5 : Body("check_tsconfig")[i].on
  /\ \A i \in 2..5 : Body("check_tsconfig")[i].text = PyTrue

====
